---------------------------- MODULE Spec2Model ----------------------------
(***************************************************************************)
(* A model of src/main.py: a command-line batch downloader that splits a   *)
(* list of URLs over worker threads, maps the files the external engine    *)
(* reports back to the URLs, and reconciles the result with the            *)
(* destination directory.                                                  *)
(*                                                                         *)
(* Strings are modelled by what the code does with them.  The text of the  *)
(* source file is a sequence of characters.  A file name is the sequence   *)
(* of its dot-separated segments, each a sequence of characters, so that   *)
(* the empty string '' is the single empty segment.                        *)
(***************************************************************************)
EXTENDS Naturals, Sequences, FiniteSets

(* ------------------------------ bounds --------------------------------- *)

\* longest source file text, in characters
MaxFileLen == 3
\* largest thread count given on the command line or in the config file
MaxThreads == 2
\* most 'downloading' progress events the engine emits for one item
MaxEvents == 2
\* most consecutive runs of the tool on the same source and destination
MaxRuns == 2

(* ------------------------------ strings -------------------------------- *)

NL == "nl"
UrlChars == {"a", "b"}
Alphabet == UrlChars \cup {NL}

\* every text of at most n characters
Texts(n) == UNION {[1..k -> Alphabet] : k \in 0..n}

\* str.split('\n') of main.py:60
RECURSIVE Split(_)
Split(s) ==
    IF \A i \in 1..Len(s) : s[i] # NL
    THEN <<s>>
    ELSE LET k == CHOOSE i \in 1..Len(s) :
                      s[i] = NL /\ \A j \in 1..(i-1) : s[j] # NL
         IN  <<SubSeq(s, 1, k-1)>> \o Split(SubSeq(s, k+1, Len(s)))

\* the string '' (one empty segment): an unset resolved filename
EmptyName == << <<>> >>

\* the truth value Python gives a string
Truthy(name) == name # EmptyName

MP4 == <<"m", "p", "4">>
M4A == <<"m", "4", "a">>
MKV == <<"m", "k", "v">>
\* the formats -f and config.json name here
Formats == {MP4, MKV}
\* an option that was not given (None, or '': both are false in `or`)
NotGiven == <<>>
\* the format id the engine puts in the name of a stream it downloads
FormatId == <<"f">>

\* a file name of the destination that is not one of this tool's downloads
ForeignFiles == { << <<"x">>, MP4 >> }

\* parse_links: one [url, ''] entry per piece of the split text
parse_links(text) ==
    [i \in 1..Len(Split(text)) |-> [url |-> Split(text)[i], name |-> EmptyName]]

(* ------------------------------ state ---------------------------------- *)

VARIABLES
    args,        \* the parsed command line (argparse.Namespace)
    cfgFile,     \* the persisted config.json
    source,      \* the text of the link file
    settings,    \* global settings
    all_links,   \* global all_links: the Link Store
    dl,          \* the Downloader objects, by thread index 0..N-1
    th,          \* the worker threads and the engine each one drives
    output,      \* global output: one progress slot per worker
    started,     \* number of threads run() has started
    joined,      \* number of threads run() has joined
    mainpc,      \* position of the main thread
    disk,        \* names of the media files in the destination directory
    failedFile,  \* failed.txt of the destination directory
    history,     \* what each run printed and the failed.txt it left behind
    run          \* number of the current run of the tool

vars == <<args, cfgFile, source, settings, all_links, dl, th, output,
          started, joined, mainpc, disk, failedFile, history, run>>


\* a function with no argument: no Downloader, no thread, no progress slot
Nobody == [x \in {} |-> x]

(* ------------------------------ config() ------------------------------- *)

\* config(): the command line overrides the persisted values; a thread count
\* that is absent (None, modelled as 0) or a format that is absent falls back
\* to the persisted one
MergedConfig(options, config) ==
    [threads |-> IF options.threads # 0 THEN options.threads ELSE config.threads,
     novideo |-> options.novideo \/ config.novideo,
     format  |-> IF options.format # NotGiven THEN options.format ELSE config.format]

\* the global settings before config() has run: nothing is set
NoSettings == [threads |-> 0, novideo |-> FALSE, format |-> NotGiven,
               nosub |-> FALSE]

\* config() without --config: the merged values and the session-only flags
SessionSettings(options, config) ==
    [threads |-> MergedConfig(options, config).threads,
     novideo |-> MergedConfig(options, config).novideo,
     format  |-> MergedConfig(options, config).format,
     nosub   |-> options.nosub]

(* ------------------------------ Downloader ----------------------------- *)

\* the extension _map_filename and end() expect
Ext(s) == IF s.novideo THEN M4A ELSE MP4

\* Downloader._set_subs
set_subs(s, no_sub) == IF no_sub THEN FALSE ELSE (IF ~s.novideo THEN TRUE ELSE FALSE)

\* the 0-based positions x, x+n, x+2n, ... below len, as 1-based indices
SlicePositions(len, x, n) == {j \in 1..len : (j - 1) % n = x}

\* links[x:]: the slice without its step
SliceTail(links, x, n) == SubSeq(links, x + 1, Len(links))

\* links[x::n] of run()
Slice(links, x, n) ==
    [k \in 1..Cardinality(SlicePositions(Len(links), x, n)) |-> links[x + 1 + (k - 1) * n]]

\* the postprocessors of the context: none for audio, else the conversion to
\* settings['format'] and the subtitle steps
Postprocessors(s) ==
    IF ~s.novideo
    THEN <<[key |-> "FFmpegVideoConvertor", preferedformat |-> s.format],
           [key |-> "FFmpegSubtitlesConvertor", preferedformat |-> NotGiven],
           [key |-> "FFmpegEmbedSubtitle", preferedformat |-> NotGiven]>>
    ELSE <<>>

\* Downloader.__init__(links, pos): the URLs of the partition, the cursor,
\* and the context handed to the engine (every call of _set_subs is made
\* without an argument)
Downloader(s, links, pos, total) ==
    [links   |-> [k \in 1..Len(links) |-> links[k].url],
     pos     |-> pos,
     current |-> 0,
     total   |-> total,
     context |-> [writesubtitles    |-> set_subs(s, FALSE),
                  writeautomaticsub |-> set_subs(s, FALSE),
                  merge_output_format |-> MP4,
                  postprocessors    |-> Postprocessors(s)]]

\* a thread run() has created and not yet started
\* (idx: items of the partition the engine is done with; ev: 'downloading'
\* events of the current item; file, target: inside _map_filename, the name
\* being mapped and the Link Store index about to be written; seen, fresh:
\* the file names the hook has received, and whether the one being mapped
\* was new.  A thread that has ended holds none of these.)
NewThread == [pc |-> "new", idx |-> 0, ev |-> 0, target |-> 0,
              file |-> EmptyName, seen |-> {}, fresh |-> FALSE]

\* a message printed without counts
Message(m) == [msg |-> m, completed |-> 0, failed |-> 0, total |-> 0,
               failedTxt |-> <<>>]

(* ------------------------------ main() --------------------------------- *)

\* main(), --start without --config: load the settings, parse the links
MainStart ==
    /\ mainpc = "boot"
    /\ args.start /\ ~args.config
    /\ settings' = SessionSettings(args, cfgFile)
    /\ all_links' = parse_links(source)
    /\ mainpc' = "run"
    /\ UNCHANGED <<args, cfgFile, source, dl, th, output, started, joined,
                   disk, failedFile, history, run>>

\* main(), --config without --start: rewrite the config file
MainConfig ==
    /\ mainpc = "boot"
    /\ ~args.start /\ args.config
    /\ cfgFile' = MergedConfig(args, cfgFile)
    /\ history' = Append(history, Message("Config updated successfully!"))
    /\ mainpc' = "exit"
    /\ UNCHANGED <<args, source, settings, all_links, dl, th, output, started,
                   joined, disk, failedFile, run>>

\* main(), both flags or neither: an error message and nothing else
MainInvalid ==
    /\ mainpc = "boot"
    /\ args.start = args.config
    /\ history' = Append(history, Message("Error: Invalid Command."))
    /\ mainpc' = "exit"
    /\ UNCHANGED <<args, cfgFile, source, settings, all_links, dl, th, output,
                   started, joined, disk, failedFile, run>>

\* run(), first loop: one Downloader, one thread and one progress slot per
\* thread index
RunConstruct ==
    /\ mainpc = "run"
    /\ dl' = [x \in 0..(settings.threads - 1) |->
                Downloader(settings, Slice(all_links, x, settings.threads), x,
                           Len(all_links))]
    /\ th' = [x \in 0..(settings.threads - 1) |-> NewThread]
    /\ output' = [x \in 0..(settings.threads - 1) |-> EmptyName]
    /\ started' = 0
    /\ joined' = 0
    /\ mainpc' = "starting"
    /\ UNCHANGED <<args, cfgFile, source, settings, all_links, disk, failedFile,
                   history, run>>

\* the globals of a fresh process
FreshProcess ==
    /\ settings = NoSettings
    /\ all_links = <<>>
    /\ dl = Nobody
    /\ th = Nobody
    /\ output = Nobody
    /\ started = 0
    /\ joined = 0
    /\ mainpc = "boot"
    /\ history = <<>>
    /\ run = 1

\* every command line and config file, an empty destination
StartupInit ==
    /\ args \in [start : BOOLEAN, config : BOOLEAN, novideo : BOOLEAN,
                 nosub : BOOLEAN, threads : 0..MaxThreads,
                 format : {NotGiven} \cup Formats]
    /\ cfgFile \in [threads : 1..MaxThreads, novideo : BOOLEAN, format : Formats]
    /\ source \in Texts(MaxFileLen)
    /\ disk = {}
    /\ failedFile = [exists |-> FALSE, lines |-> <<>>]
    /\ FreshProcess

StartupNext == MainStart \/ MainConfig \/ MainInvalid \/ RunConstruct

\* the program up to the point where run() starts its threads
StartupSpec == StartupInit /\ [][StartupNext]_vars

(* ------------------------------ run() ---------------------------------- *)

N == settings.threads

\* a join that does not wait
TerminatedOrNot(t) == TRUE

\* a thread whose target has returned or raised
Terminated(t) == t.pc \in {"done", "dead"}

\* run(), second loop: thread.start(), in index order
RunStartThread ==
    /\ mainpc = "starting"
    /\ started < N
    /\ th' = [th EXCEPT ![started].pc = "run"]
    /\ started' = started + 1
    /\ UNCHANGED <<args, cfgFile, source, settings, all_links, dl, output, joined,
                   mainpc, disk, failedFile, history, run>>

\* run(), third loop: thread.join(), in index order; join returns when the
\* thread has ended, whether its target returned or raised
RunJoin ==
    /\ mainpc = "starting"
    /\ started = N
    /\ joined < N
    /\ Terminated(th[joined])
    /\ joined' = joined + 1
    /\ UNCHANGED <<args, cfgFile, source, settings, all_links, dl, th, output,
                   started, mainpc, disk, failedFile, history, run>>

(* ------------------------- the external engine ------------------------- *)

\* the URL the engine of worker w is working on
Item(w) == dl[w].links[th[w].idx + 1]

HasItem(w) == th[w].pc = "run" /\ th[w].idx < Len(dl[w].links)

\* the file the engine downloads (and merges) for a URL before any
\* postprocessor runs: the title (one segment, the URL standing for it) and
\* the extension of the stream, m4a for audio, else merge_output_format
MergedName(url, context) ==
    <<url, IF context.postprocessors = <<>> THEN M4A ELSE context.merge_output_format>>

\* the file the engine leaves in the destination for a URL: the merged file,
\* converted to the preferedformat of the FFmpegVideoConvertor when the
\* context holds one
FinalName(url, context) ==
    IF context.postprocessors = <<>>
    THEN MergedName(url, context)
    ELSE <<url, context.postprocessors[1].preferedformat>>

\* the names under which the engine reports the download of a URL: the final
\* name, or the name of one stream with its format id
EventNames(url, ext) == {<<url, ext>>, <<url, FormatId, ext>>}

(* ------------------------- Downloader._my_hook ------------------------- *)

\* filename.rsplit('.', 2)[0]
RSplit2Head(name) ==
    IF Len(name) >= 3 THEN SubSeq(name, 1, Len(name) - 2) ELSE <<name[1]>>

\* f"{filename.rsplit('.', 2)[0]}.{ext}"
ResolvedName(name, ext) == Append(RSplit2Head(name), ext)

\* the loop without its test of link[1]: the first entry with the URL
MatchIndexAny(links, url) ==
    LET hits == {i \in 1..Len(links) : links[i].url = url}
    IN  IF hits = {} THEN 0 ELSE CHOOSE i \in hits : \A j \in hits : i <= j

\* the loop of _map_filename: the first entry whose filename is unset and
\* whose URL is the one at the cursor (0: none)
MatchIndex(links, url) ==
    LET hits == {i \in 1..Len(links) : ~Truthy(links[i].name) /\ links[i].url = url}
    IN  IF hits = {} THEN 0 ELSE CHOOSE i \in hits : \A j \in hits : i <= j

\* the index _map_filename(filename) is about to write for worker w (0: the
\* partition is exhausted or no entry matches)
MapTarget(w) ==
    IF Len(dl[w].links) > dl[w].current
    THEN MatchIndex(all_links, dl[w].links[dl[w].current + 1])
    ELSE 0

\* The engine reports a 'downloading' event for the current item and calls
\* _my_hook, which runs _map_filename up to the entry it found; without an
\* entry the hook goes on to write its progress slot.  A file the engine
\* finds under the name it would download to is not downloaded again (a
\* converted file under another extension may be), and '' is no URL.  (The numbers of
\* the progress block are not modelled: the slot holds the file name.  Events
\* of another status leave the hook at its first test.)
EngineProgress(w) ==
    /\ HasItem(w)
    /\ Item(w) # <<>>
    /\ MergedName(Item(w), dl[w].context) \notin disk
    /\ th[w].ev < MaxEvents
    /\ \E f \in EventNames(Item(w), Ext(settings)) :
         /\ th' = [th EXCEPT ![w] =
                     IF MapTarget(w) # 0
                     THEN [@ EXCEPT !.ev = @ + 1, !.seen = @ \cup {f},
                                    !.file = f, !.fresh = (f \notin th[w].seen),
                                    !.target = MapTarget(w), !.pc = "write"]
                     ELSE [@ EXCEPT !.ev = @ + 1, !.seen = @ \cup {f}]]
         /\ output' = IF MapTarget(w) # 0 THEN output ELSE [output EXCEPT ![w] = f]
    /\ UNCHANGED <<args, cfgFile, source, settings, all_links, dl, started, joined,
                   mainpc, disk, failedFile, history, run>>

\* _map_filename, the assignment and the cursor, then the progress slot
MapWrite(w) ==
    /\ th[w].pc = "write"
    /\ all_links' = [all_links EXCEPT ![th[w].target].name =
                        ResolvedName(th[w].file, Ext(settings))]
    /\ dl' = [dl EXCEPT ![w].current = @ + 1]
    /\ output' = [output EXCEPT ![w] = th[w].file]
    /\ th' = [th EXCEPT ![w] = [@ EXCEPT !.pc = "run", !.file = EmptyName,
                                          !.target = 0, !.fresh = FALSE]]
    /\ UNCHANGED <<args, cfgFile, source, settings, started, joined, mainpc, disk,
                   failedFile, history, run>>

\* the engine completes the download of the current item
EngineFinish(w) ==
    /\ HasItem(w)
    /\ th[w].ev >= 1
    /\ disk' = disk \cup {FinalName(Item(w), dl[w].context)}
    /\ th' = [th EXCEPT ![w] = [@ EXCEPT !.idx = @ + 1, !.ev = 0]]
    /\ UNCHANGED <<args, cfgFile, source, settings, all_links, dl, output, started,
                   joined, mainpc, failedFile, history, run>>

\* the engine leaves the current item without a new file: a per-item error
\* (ignoreerrors), or a file that is already there
EngineSkip(w) ==
    /\ HasItem(w)
    /\ th' = [th EXCEPT ![w] = [@ EXCEPT !.idx = @ + 1, !.ev = 0]]
    /\ UNCHANGED <<args, cfgFile, source, settings, all_links, dl, output, started,
                   joined, mainpc, disk, failedFile, history, run>>

\* the engine raises YoutubeDLError in the worker thread, which ends it
EngineFatal(w) ==
    /\ th[w].pc = "run"
    /\ th' = [th EXCEPT ![w] = [NewThread EXCEPT !.pc = "dead"]]
    /\ UNCHANGED <<args, cfgFile, source, settings, all_links, dl, output, started,
                   joined, mainpc, disk, failedFile, history, run>>

\* Downloader.start returns: the partition is done
EngineReturn(w) ==
    /\ th[w].pc = "run"
    /\ th[w].idx = Len(dl[w].links)
    /\ th' = [th EXCEPT ![w] = [NewThread EXCEPT !.pc = "done"]]
    /\ UNCHANGED <<args, cfgFile, source, settings, all_links, dl, output, started,
                   joined, mainpc, disk, failedFile, history, run>>

(* ------------------------------ end() ---------------------------------- *)

\* glob(destination + '*.' + ext), base names: '*' matches no leading dot
Downloaded(files, ext) ==
    {n \in files : Len(n) >= 2 /\ n[Len(n)] = ext /\ n[1] # <<>>}

\* filter(lambda x: x[1] not in downloaded, all_links)
Failed(links, downloaded) ==
    SelectSeq(links, LAMBDA l : l.name \notin downloaded)

Urls(links) == [i \in 1..Len(links) |-> links[i].url]

\* the test end() makes before it reports full success
IsComplete(links, downloaded) == Cardinality(downloaded) = Len(links)

\* end(): scan, classify, rewrite failed.txt unless the counts agree, report
End ==
    /\ mainpc = "starting"
    /\ started = N
    /\ joined = N
    /\ LET downloaded == Downloaded(disk, Ext(settings))
           failed == Failed(all_links, downloaded)
           complete == IsComplete(all_links, downloaded)
           txt == IF complete THEN failedFile
                  ELSE [exists |-> TRUE, lines |-> Urls(failed)]
       IN  /\ failedFile' = txt
           /\ history' = Append(history,
                  [msg |-> IF complete THEN "Download Complete!" ELSE "Download Failed!",
                   completed |-> Cardinality(downloaded),
                   failed |-> Len(failed),
                   total |-> Len(all_links),
                   failedTxt |-> txt.lines])
    /\ mainpc' = "exit"
    /\ UNCHANGED <<args, cfgFile, source, settings, all_links, dl, th, output,
                   started, joined, disk, run>>

\* the tool is run again with the same command line, source and destination
Rerun ==
    /\ mainpc = "exit"
    /\ run < MaxRuns
    /\ settings' = NoSettings
    /\ all_links' = <<>>
    /\ dl' = Nobody
    /\ th' = Nobody
    /\ output' = Nobody
    /\ started' = 0
    /\ joined' = 0
    /\ mainpc' = "boot"
    /\ run' = run + 1
    /\ UNCHANGED <<args, cfgFile, source, disk, failedFile, history>>

(* --------------------------- specifications ---------------------------- *)

\* tuber --start [-a] [-t n] on every source text, the destination empty or
\* holding a file of someone else
Init ==
    /\ args \in [start : {TRUE}, config : {FALSE}, novideo : BOOLEAN,
                 nosub : {FALSE}, threads : 1..MaxThreads,
                 format : {NotGiven}]
    /\ cfgFile \in [threads : {1}, novideo : {FALSE}, format : Formats]
    /\ source \in Texts(MaxFileLen)
    /\ disk \in SUBSET ForeignFiles
    /\ failedFile = [exists |-> FALSE, lines |-> <<>>]
    /\ FreshProcess

Workers == DOMAIN th

MainStep == MainStart \/ RunConstruct \/ RunStartThread \/ RunJoin \/ End

WorkerStep ==
    \/ \E w \in Workers : EngineProgress(w)
    \/ \E w \in Workers : MapWrite(w)
    \/ \E w \in Workers : EngineFinish(w)
    \/ \E w \in Workers : EngineSkip(w)
    \/ \E w \in Workers : EngineFatal(w)
    \/ \E w \in Workers : EngineReturn(w)

Next == MainStep \/ WorkerStep \/ Rerun

Spec == Init /\ [][Next]_vars

\* tuber --start [-t n] on every source text, into an empty destination
OneRunInit ==
    /\ args \in [start : {TRUE}, config : {FALSE}, novideo : {FALSE},
                 nosub : {FALSE}, threads : 1..MaxThreads,
                 format : {NotGiven}]
    /\ cfgFile \in [threads : {1}, novideo : {FALSE}, format : Formats]
    /\ source \in Texts(MaxFileLen)
    /\ disk = {}
    /\ failedFile = [exists |-> FALSE, lines |-> <<>>]
    /\ FreshProcess

OneRunNext == MainStep \/ WorkerStep

\* one run of the tool, from the command line to the report
OneRunSpec == OneRunInit /\ [][OneRunNext]_vars

\* every text of at most n characters that names no URL but 'a', 'aa', ...
TextsOfOneUrlChar(n) == {t \in Texts(n) : \A i \in 1..Len(t) : t[i] \in {"a", NL}}

\* tuber --start [-t n] into an empty destination; whether a run ends does
\* not depend on which URLs the lines hold, so one character spells them
FairInit ==
    /\ args \in [start : {TRUE}, config : {FALSE}, novideo : {FALSE},
                 nosub : {FALSE}, threads : 1..MaxThreads,
                 format : {NotGiven}]
    /\ cfgFile \in [threads : {1}, novideo : {FALSE}, format : Formats]
    /\ source \in TextsOfOneUrlChar(MaxFileLen)
    /\ disk = {}
    /\ failedFile = [exists |-> FALSE, lines |-> <<>>]
    /\ FreshProcess

\* one run under the least the scheduler and the engine guarantee: while the
\* main thread or a worker thread can take a step, one of them does (a
\* thread that can run is run, and the engine ends each item and each call)
FairSpec == FairInit /\ [][OneRunNext]_vars /\ WF_vars(OneRunNext)

(* ------------------------------- claims -------------------------------- *)

\* run() has built its Downloaders
Constructed == DOMAIN dl # {}

\* the worker that owns the entry at 1-based index j (0-based j-1)
Owner(j) == (j - 1) % N

\* the URLs handed to worker x
PartUrls(x) == {dl[x].links[k] : k \in 1..Len(dl[x].links)}

AllUrls == {all_links[j].url : j \in 1..Len(all_links)}

NoDuplicateUrls ==
    \A i, j \in 1..Len(all_links) : all_links[i].url = all_links[j].url => i = j

\* every position of the list is one slot of its owner's partition, and
\* every slot of a partition is a position of the list
PositionsPartitioned ==
    /\ DOMAIN dl = 0..(N - 1)
    /\ \A j \in 1..Len(all_links) :
         /\ ((j - 1) \div N) + 1 <= Len(dl[Owner(j)].links)
         /\ dl[Owner(j)].links[((j - 1) \div N) + 1] = all_links[j].url
    /\ \A x \in DOMAIN dl : \A k \in 1..Len(dl[x].links) :
         x + 1 + (k - 1) * N <= Len(all_links)

UrlsDisjoint ==
    \A x, y \in DOMAIN dl : x # y => PartUrls(x) \cap PartUrls(y) = {}

\* C1 as stated: for every thread count and every link list the partitions
\* are the round-robin split of the positions, and no URL is in two of them.
C1_NoUrlInTwoPartitions ==
    Constructed => (PositionsPartitioned /\ UrlsDisjoint)

\* C1 as amended: link[i] is handed to worker i mod N and to no other, no
\* URL is dropped, and no URL is handed to two workers when the list holds
\* no URL twice.
C1_RoundRobinPartition ==
    Constructed =>
        /\ PositionsPartitioned
        /\ UNION {PartUrls(x) : x \in DOMAIN dl} = AllUrls
        /\ NoDuplicateUrls => UrlsDisjoint

\* C1: two workers, each with a non-empty partition of a list without
\* duplicates
C1_TwoPartitions ==
    /\ Constructed
    /\ N = 2
    /\ NoDuplicateUrls
    /\ dl[0].links # <<>>
    /\ dl[1].links # <<>>

\* the non-empty lines of a text, in order
NonEmptyLines(text) == SelectSeq(Split(text), LAMBDA l : l # <<>>)

\* C7 as stated: the Link Store parse_links builds holds one entry per
\* non-empty line of the source file, in order, each with its filename unset.
C7_OneEntryPerNonEmptyLine ==
    mainpc = "run" =>
        /\ Urls(all_links) = NonEmptyLines(source)
        /\ \A j \in 1..Len(all_links) : ~Truthy(all_links[j].name)

\* C8 as stated: both subtitle settings of every worker are on exactly when
\* neither audio-only mode nor --nosub is set.
C8_SubtitlesUnlessAudioOrNosub ==
    Constructed =>
        \A x \in DOMAIN dl :
            /\ dl[x].context.writesubtitles = (~settings.novideo /\ ~settings.nosub)
            /\ dl[x].context.writeautomaticsub = (~settings.novideo /\ ~settings.nosub)

\* end() has run in this process
Ended == mainpc = "exit" /\ Len(history) = run

\* what the last end() printed
Report == history[Len(history)]

\* the lines of failed.txt (none when there is no such file)
ContentOf(f) == IF f.exists THEN f.lines ELSE <<>>

\* the files end() found in the destination
Scan == Downloaded(disk, Ext(settings))

\* the links whose resolved filename is a file of the destination scan
Succeeded == {j \in 1..Len(all_links) : all_links[j].name \in Scan}

\* C2 as stated: after end(), failed.txt holds exactly the URLs of this
\* run's links whose filename is unset or not in the destination scan.
C2_FailureFileIsThisRunsFailures ==
    Ended => ContentOf(failedFile) = Urls(Failed(all_links, Scan))

\* C3 as stated: the report counts the links by their classification, so
\* completed + failed = total.
C3_CountsFollowClassification ==
    Ended =>
        /\ Report.completed = Cardinality(Succeeded)
        /\ Report.failed = Len(all_links) - Cardinality(Succeeded)
        /\ Report.completed + Report.failed = Report.total

\* C4 as stated: end() prints 'Download Complete!' exactly when no link is
\* classified as failed.
C4_CompleteIffNoLinkFailed ==
    Ended =>
        ((Report.msg = "Download Complete!") <=> (Succeeded = 1..Len(all_links)))

Range(q) == {q[i] : i \in 1..Len(q)}

\* C5 as stated: on a rerun with the files left in place, the URLs of the
\* new failure file are among those of the run before.
C5_RerunFailuresShrink ==
    \A r \in 2..Len(history) :
        Range(history[r].failedTxt) \subseteq Range(history[r - 1].failedTxt)

\* C9 as stated: the hook resolves an entry and advances the cursor only on
\* the first event for a file name.
C9_MapsOnlyFirstEventOfAFile ==
    \A w \in Workers : th[w].pc = "write" => th[w].fresh

\* a write _map_filename is about to make goes to an entry of the writer's
\* own partition whose filename is still unset
WritesOwnUnsetEntries ==
    \A w \in Workers :
        th[w].pc = "write" =>
            /\ Owner(th[w].target) = w
            /\ ~Truthy(all_links[th[w].target].name)

\* no URL is in the partitions of two workers
NoUrlAcrossPartitions ==
    \A i, j \in 1..Len(all_links) :
        all_links[i].url = all_links[j].url => Owner(i) = Owner(j)

\* C10 as stated: under every interleaving, for every link list, an entry
\* is written only by the worker that owns it, and only while it is unset.
C10_OnlyOwnerWritesOnce == WritesOwnUnsetEntries

\* C10 as amended: the same, for the link lists that hold no URL in the
\* partitions of two workers.
C10_OwnerWritesOnceWithoutSharedUrls ==
    NoUrlAcrossPartitions => WritesOwnUnsetEntries

\* C10: a worker is about to write while an entry of another worker is set
C10_TwoWritersInterleaved ==
    /\ Constructed
    /\ NoUrlAcrossPartitions
    /\ \E w \in Workers :
         /\ th[w].pc = "write"
         /\ \E j \in 1..Len(all_links) :
              Truthy(all_links[j].name) /\ Owner(j) # w

\* every worker thread has ended: its target returned or raised
AllTerminated == \A w \in Workers : th[w].pc \in {"done", "dead"}

\* C6: a run started with --start ends in end(), and end() runs only when
\* every worker thread has ended, by returning or by the engine's error.
C6_ReconciliationAlwaysAfterWorkers ==
    /\ [](Ended => AllTerminated)
    /\ (mainpc = "boot") ~> Ended

\* C6: end() has run after one worker returned and another died
C6_ReportAfterFatalError ==
    /\ Ended
    /\ \E w \in Workers : th[w].pc = "dead"
    /\ \E w \in Workers : th[w].pc = "done"
=============================================================================
